---- MODULE Spec2Model ----
(***************************************************************************)
(* Model of src/src/main.c, the LVGL simulator launcher.                   *)
(*                                                                         *)
(* Strings are sequences of one-character strings, so that getopt and atoi *)
(* are computed character by character as the C library computes them.     *)
(* A C pointer to a string is a record: NULL, or Ptr(s).                   *)
(* argv holds argv[1..argc-1]; argv[0] (the program name) is left out, so  *)
(* the C index optind is the index into argv here.                         *)
(***************************************************************************)
EXTENDS Integers, Sequences, FiniteSets, TLC

VARIABLES
    USE_STANDARD,       \* build option: #if USE_STANDARD (main.c:42)
    LV_USE_EVDEV,       \* build option: #if LV_USE_EVDEV (main.c:155)
    argv,               \* the command line after argv[0]
    env_w, env_h,       \* getenv("LV_SIM_WINDOW_WIDTH"/"..._HEIGHT")
    pc,                 \* position of the single thread in main
    selected_backend,   \* static char * selected_backend
    settings,           \* extern simulator_settings_t settings
    opt, optarg, optopt, optind, nextchar,   \* getopt's results and scan state
    exit_status,        \* <<>> while the process runs, <<status>> once it ended
    calls               \* the calls main has made into the libraries, in order

vars == <<USE_STANDARD, LV_USE_EVDEV, argv, env_w, env_h, pc,
          selected_backend, settings, opt, optarg, optopt, optind, nextchar,
          exit_status, calls>>

config == <<USE_STANDARD, LV_USE_EVDEV, argv, env_w, env_h>>
getopt_state == <<opt, optarg, optopt, optind, nextchar>>

-----------------------------------------------------------------------------
(* Bounds and program constants *)

MaxArgs == 3

EXIT_SUCCESS == 0
EXIT_FAILURE == 1

NULL == [null |-> TRUE, str |-> <<>>]
Ptr(s) == [null |-> FALSE, str |-> s]

OPT_NONE == "0"
OPT_END == "-1"

\* the option string handed to getopt
Optstring == <<"b", ":", "f", "m", "W", ":", "H", ":", "B", "V", "h">>

\* the string defaults of the window size
DEFAULT_WIDTH == <<"8", "0", "0">>
DEFAULT_HEIGHT == <<"4", "8", "0">>

\* the backend names of the registry filled by driver_backends_register
SupportedBackends == {<<"S", "D", "L">>, <<"F", "B", "D", "E", "V">>}

EVDEV == <<"E", "V", "D", "E", "V">>
FBDEV == <<"F", "B", "D", "E", "V">>

\* the command-line words and environment values the model draws from
ArgWords ==
    { <<"-", "h">>, <<"-", "V">>, <<"-", "B">>, <<"-", "f", "m">>,
      <<"-", "b">>, <<"-", "W">>, <<"-", "H", "5">>, <<"-", "7">>,
      <<"-", "b", "S", "D", "L">>, <<"F", "B", "D", "E", "V">>,
      <<"7", "x">>, <<"-", "-">> }

EnvWidths == {NULL, Ptr(<<"6", "4", "0">>)}
EnvHeights == {NULL, Ptr(<<" ", "3", "6", "p">>)}

RECURSIVE SeqsUpTo(_, _)
SeqsUpTo(S, n) ==
    IF n = 0 THEN {<<>>}
    ELSE LET shorter == SeqsUpTo(S, n - 1)
         IN shorter \cup {Append(s, x) : s \in shorter, x \in S}

-----------------------------------------------------------------------------
(* atoi: optional white space, optional sign, then the decimal digits up   *)
(* to the first character that is no digit; 0 when there is no digit.      *)

IsDigit(c) == c \in {"0", "1", "2", "3", "4", "5", "6", "7", "8", "9"}

DigitVal(c) ==
    CASE c = "0" -> 0 [] c = "1" -> 1 [] c = "2" -> 2 [] c = "3" -> 3
      [] c = "4" -> 4 [] c = "5" -> 5 [] c = "6" -> 6 [] c = "7" -> 7
      [] c = "8" -> 8 [] c = "9" -> 9

RECURSIVE SkipSpaces(_, _)
SkipSpaces(s, k) ==
    IF k <= Len(s) /\ s[k] = " " THEN SkipSpaces(s, k + 1) ELSE k

RECURSIVE AccDigits(_, _, _)
AccDigits(s, k, acc) ==
    IF k <= Len(s) /\ IsDigit(s[k])
    THEN AccDigits(s, k + 1, acc * 10 + DigitVal(s[k]))
    ELSE acc

atoi(s) ==
    LET k == SkipSpaces(s, 1)
        signed == k <= Len(s) /\ s[k] \in {"-", "+"}
        magnitude == AccDigits(s, IF signed THEN k + 1 ELSE k, 0)
    IN IF signed /\ s[k] = "-" THEN 0 - magnitude ELSE magnitude

-----------------------------------------------------------------------------
(* getopt(argc, argv, "b:fmW:H:BVh"), as the GNU C library of a Linux       *)
(* system computes it with POSIXLY_CORRECT unset: words that are no        *)
(* options are stepped over, "--" ends the options, a missing argument     *)
(* gives '?' because the option string does not start with ':'.            *)
(* optind here is the scan position in the command line as it was given;   *)
(* the program reads only opt, optarg and optopt.                          *)

argc == Len(argv) + 1

InOptstring(c) ==
    c # ":" /\ \E j \in 1..Len(Optstring) : Optstring[j] = c

TakesArg(c) ==
    \E j \in 1..(Len(Optstring) - 1) : Optstring[j] = c /\ Optstring[j + 1] = ":"

\* an element that getopt scans for option letters: "-x...", but not "-"
IsOptionElem(a) == Len(a) > 1 /\ a[1] = "-"

DashDash == <<"-", "-">>

\* the non-options getopt steps over when it permutes
RECURSIVE SkipNonOptions(_)
SkipNonOptions(i) ==
    IF i < argc /\ ~IsOptionElem(argv[i]) THEN SkipNonOptions(i + 1) ELSE i

GetoptResult(o, a, oo, i, n) ==
    [opt |-> o, optarg |-> a, optopt |-> oo, optind |-> i, nextchar |-> n]

\* the option letter at argv[i][k]
ScanLetter(i, k) ==
    LET c == argv[i][k]
        last == k = Len(argv[i])
        ni == IF last THEN i + 1 ELSE i
        nk == IF last THEN 0 ELSE k + 1
    IN IF ~InOptstring(c)
       THEN GetoptResult("?", NULL, c, ni, nk)
       ELSE IF ~TakesArg(c)
       THEN GetoptResult(c, NULL, optopt, ni, nk)
       ELSE IF ~last
       THEN GetoptResult(c, Ptr(SubSeq(argv[i], k + 1, Len(argv[i]))), optopt, i + 1, 0)
       ELSE IF i + 1 >= argc
       THEN GetoptResult(IF Optstring[1] = ":" THEN ":" ELSE "?", NULL, c, i + 1, 0)
       ELSE GetoptResult(c, Ptr(argv[i + 1]), optopt, i + 2, 0)

\* one call of getopt from the scan state (optind, nextchar)
Getopt ==
    IF nextchar # 0
    THEN ScanLetter(optind, nextchar)
    ELSE LET i == SkipNonOptions(optind)
         IN IF i >= argc
            THEN GetoptResult(OPT_END, NULL, optopt, i, 0)
            ELSE IF argv[i] = DashDash
            THEN GetoptResult(OPT_END, NULL, optopt, i + 1, 0)
            ELSE ScanLetter(i, 2)

SetGetopt(g) ==
    /\ opt' = g.opt
    /\ optarg' = g.optarg
    /\ optopt' = g.optopt
    /\ optind' = g.optind
    /\ nextchar' = g.nextchar

-----------------------------------------------------------------------------
(* The process *)

Call(fn, arg, ret) == [fn |-> fn, arg |-> arg, ret |-> ret]

\* The build without USE_STANDARD reads neither argv nor the environment, so
\* one command line and one environment stand for all of them there.
Init ==
    /\ USE_STANDARD \in BOOLEAN
    /\ LV_USE_EVDEV \in BOOLEAN
    /\ IF USE_STANDARD
       THEN /\ argv \in SeqsUpTo(ArgWords, MaxArgs)
            /\ env_w \in EnvWidths
            /\ env_h \in EnvHeights
       ELSE /\ argv = <<>>
            /\ env_w = NULL
            /\ env_h = NULL
    /\ pc = "main"
    /\ selected_backend = NULL
    /\ settings = [window_width |-> 0, window_height |-> 0,
                   fullscreen |-> FALSE, maximize |-> FALSE]
    /\ opt = OPT_NONE
    /\ optarg = NULL
    /\ optopt = "?"
    /\ optind = 1
    /\ nextchar = 0
    /\ exit_status = <<>>
    /\ calls = <<>>

\* exit(status)
Exit(status) ==
    /\ pc' = "exited"
    /\ exit_status' = <<status>>

\* die(msg): print the message and end the process with a failure status
die(log, msg) ==
    /\ calls' = Append(log, Call("die", Ptr(msg), 0))
    /\ Exit(EXIT_FAILURE)

\* driver_backends_is_supported(name): 1 when the registry holds the name
driver_backends_is_supported(name) ==
    IF name \in SupportedBackends THEN 1 ELSE 0

\* configure_simulator with the environment not consulted
ConfigureStart_IgnoreEnv ==
    /\ pc = "main"
    /\ USE_STANDARD
    /\ selected_backend' = NULL
    /\ calls' = Append(calls, Call("driver_backends_register", NULL, 0))
    /\ settings' = [settings EXCEPT
                      !.window_width = atoi(DEFAULT_WIDTH),
                      !.window_height = atoi(DEFAULT_HEIGHT)]
    /\ pc' = "getopt"
    /\ UNCHANGED <<config, getopt_state, exit_status>>

\* configure_simulator up to the option loop
ConfigureStart ==
    /\ pc = "main"
    /\ USE_STANDARD
    /\ selected_backend' = NULL
    /\ calls' = Append(calls, Call("driver_backends_register", NULL, 0))
    /\ settings' = [settings EXCEPT
                      !.window_width = atoi(IF ~env_w.null THEN env_w.str ELSE DEFAULT_WIDTH),
                      !.window_height = atoi(IF ~env_h.null THEN env_h.str ELSE DEFAULT_HEIGHT)]
    /\ pc' = "getopt"
    /\ UNCHANGED <<config, getopt_state, exit_status>>

\* case 'h' without the exit
CaseHelp_NoExit ==
    /\ pc = "getopt"
    /\ LET g == Getopt IN
         /\ g.opt = "h"
         /\ SetGetopt(g)
    /\ calls' = Append(calls, Call("print_usage", NULL, 0))
    /\ UNCHANGED <<config, pc, exit_status, selected_backend, settings>>

\* case 'h'
CaseHelp ==
    /\ pc = "getopt"
    /\ LET g == Getopt IN
         /\ g.opt = "h"
         /\ SetGetopt(g)
    /\ calls' = Append(calls, Call("print_usage", NULL, 0))
    /\ Exit(EXIT_SUCCESS)
    /\ UNCHANGED <<config, selected_backend, settings>>

\* case 'V'
CaseVersion ==
    /\ pc = "getopt"
    /\ LET g == Getopt IN
         /\ g.opt = "V"
         /\ SetGetopt(g)
    /\ calls' = Append(calls, Call("print_lvgl_version", NULL, 0))
    /\ Exit(EXIT_SUCCESS)
    /\ UNCHANGED <<config, selected_backend, settings>>

\* case 'B' without the exit
CaseListBackends_NoExit ==
    /\ pc = "getopt"
    /\ LET g == Getopt IN
         /\ g.opt = "B"
         /\ SetGetopt(g)
    /\ calls' = Append(calls, Call("driver_backends_print_supported", NULL, 0))
    /\ UNCHANGED <<config, pc, exit_status, selected_backend, settings>>

\* case 'B'
CaseListBackends ==
    /\ pc = "getopt"
    /\ LET g == Getopt IN
         /\ g.opt = "B"
         /\ SetGetopt(g)
    /\ calls' = Append(calls, Call("driver_backends_print_supported", NULL, 0))
    /\ Exit(EXIT_SUCCESS)
    /\ UNCHANGED <<config, selected_backend, settings>>

\* case 'b' keeping the first name given
CaseBackend_KeepFirst ==
    /\ pc = "getopt"
    /\ LET g == Getopt IN
         /\ g.opt = "b"
         /\ SetGetopt(g)
         /\ IF driver_backends_is_supported(g.optarg.str) = 0
            THEN /\ die(calls, <<"n", "o", " ", "s", "u", "c", "h">>)
                 /\ UNCHANGED selected_backend
            ELSE /\ selected_backend' =
                      IF selected_backend = NULL THEN Ptr(g.optarg.str)
                      ELSE selected_backend
                 /\ UNCHANGED <<pc, exit_status, calls>>
    /\ UNCHANGED <<config, settings>>

\* case 'b' with the name stored before it is checked
CaseBackend_StoreFirst ==
    /\ pc = "getopt"
    /\ LET g == Getopt IN
         /\ g.opt = "b"
         /\ SetGetopt(g)
         /\ selected_backend' = Ptr(g.optarg.str)
         /\ IF driver_backends_is_supported(g.optarg.str) = 0
            THEN die(calls, <<"n", "o", " ", "s", "u", "c", "h">>)
            ELSE UNCHANGED <<pc, exit_status, calls>>
    /\ UNCHANGED <<config, settings>>

\* case 'b'
CaseBackend ==
    /\ pc = "getopt"
    /\ LET g == Getopt IN
         /\ g.opt = "b"
         /\ SetGetopt(g)
         /\ IF driver_backends_is_supported(g.optarg.str) = 0
            THEN /\ die(calls, <<"n", "o", " ", "s", "u", "c", "h">>)
                 /\ UNCHANGED selected_backend
            ELSE /\ selected_backend' = Ptr(g.optarg.str)
                 /\ UNCHANGED <<pc, exit_status, calls>>
    /\ UNCHANGED <<config, settings>>

\* case 'f'
CaseFullscreen ==
    /\ pc = "getopt"
    /\ LET g == Getopt IN
         /\ g.opt = "f"
         /\ SetGetopt(g)
    /\ settings' = [settings EXCEPT !.fullscreen = TRUE]
    /\ UNCHANGED <<config, pc, selected_backend, exit_status, calls>>

\* case 'm' writing the field of case 'f'
CaseMaximize_WrongField ==
    /\ pc = "getopt"
    /\ LET g == Getopt IN
         /\ g.opt = "m"
         /\ SetGetopt(g)
    /\ settings' = [settings EXCEPT !.fullscreen = TRUE]
    /\ UNCHANGED <<config, pc, selected_backend, exit_status, calls>>

\* case 'm'
CaseMaximize ==
    /\ pc = "getopt"
    /\ LET g == Getopt IN
         /\ g.opt = "m"
         /\ SetGetopt(g)
    /\ settings' = [settings EXCEPT !.maximize = TRUE]
    /\ UNCHANGED <<config, pc, selected_backend, exit_status, calls>>

\* case 'W'
CaseWidth ==
    /\ pc = "getopt"
    /\ LET g == Getopt IN
         /\ g.opt = "W"
         /\ SetGetopt(g)
         /\ settings' = [settings EXCEPT !.window_width = atoi(g.optarg.str)]
    /\ UNCHANGED <<config, pc, selected_backend, exit_status, calls>>

\* case 'H'
CaseHeight ==
    /\ pc = "getopt"
    /\ LET g == Getopt IN
         /\ g.opt = "H"
         /\ SetGetopt(g)
         /\ settings' = [settings EXCEPT !.window_height = atoi(g.optarg.str)]
    /\ UNCHANGED <<config, pc, selected_backend, exit_status, calls>>

\* case ':' and case '?' with the usage printed and the loop going on
CaseError_NoDie ==
    /\ pc = "getopt"
    /\ LET g == Getopt IN
         /\ g.opt \in {":", "?"}
         /\ SetGetopt(g)
    /\ calls' = Append(calls, Call("print_usage", NULL, 0))
    /\ UNCHANGED <<config, pc, exit_status, selected_backend, settings>>

\* case ':' and case '?'
CaseError ==
    /\ pc = "getopt"
    /\ LET g == Getopt IN
         /\ g.opt \in {":", "?"}
         /\ SetGetopt(g)
         /\ die(Append(calls, Call("print_usage", NULL, 0)),
                IF g.opt = ":" THEN <<"r", "e", "q", "u", "i", "r", "e", "s">>
                ELSE <<"U", "n", "k", "n", "o", "w", "n">>)
    /\ UNCHANGED <<config, selected_backend, settings>>

\* the end of the option loop with main going on past lv_init
ConfigureReturn_SkipLvInit ==
    /\ pc = "getopt"
    /\ LET g == Getopt IN
         /\ g.opt = OPT_END
         /\ SetGetopt(g)
    /\ calls' = Append(calls, Call("configure_simulator", NULL, 0))
    /\ pc' = "init_backend"
    /\ UNCHANGED <<config, selected_backend, settings, exit_status>>

\* getopt returns -1: the loop ends and configure_simulator returns
ConfigureReturn ==
    /\ pc = "getopt"
    /\ LET g == Getopt IN
         /\ g.opt = OPT_END
         /\ SetGetopt(g)
    /\ calls' = Append(calls, Call("configure_simulator", NULL, 0))
    /\ pc' = "lv_init"
    /\ UNCHANGED <<config, selected_backend, settings, exit_status>>

\* lv_init followed by a write of the default size
LvInit_WritesSettings ==
    /\ pc = "lv_init"
    /\ calls' = Append(calls, Call("lv_init", NULL, 0))
    /\ settings' = [settings EXCEPT !.window_width = atoi(DEFAULT_WIDTH)]
    /\ pc' = "init_backend"
    /\ UNCHANGED <<config, selected_backend, getopt_state, exit_status>>

\* the main of the other build, up to lv_init
RegisterAndSelect ==
    /\ pc = "main"
    /\ ~USE_STANDARD
    /\ calls' = Append(calls, Call("driver_backends_register", NULL, 0))
    /\ selected_backend' = Ptr(FBDEV)
    /\ pc' = "lv_init"
    /\ UNCHANGED <<config, settings, getopt_state, exit_status>>

LvInit ==
    /\ pc = "lv_init"
    /\ calls' = Append(calls, Call("lv_init", NULL, 0))
    /\ pc' = "init_backend"
    /\ UNCHANGED <<config, selected_backend, settings, getopt_state, exit_status>>

\* driver_backends_init_backend(selected_backend); it returns 0 or -1
InitDisplayBackend ==
    /\ pc = "init_backend"
    /\ \E ret \in {0, -1} :
         LET log == Append(calls, Call("driver_backends_init_backend", selected_backend, ret))
         IN IF ret = -1
            THEN die(log, <<"d", "i", "s", "p", "l", "a", "y">>)
            ELSE /\ calls' = log
                 /\ pc' = IF USE_STANDARD /\ LV_USE_EVDEV THEN "init_evdev" ELSE "demo"
                 /\ UNCHANGED exit_status
    /\ UNCHANGED <<config, selected_backend, settings, getopt_state>>

\* driver_backends_init_backend("EVDEV") with its result not looked at
InitEvdev_IgnoreFailure ==
    /\ pc = "init_evdev"
    /\ \E ret \in {0, -1} :
         calls' = Append(calls, Call("driver_backends_init_backend", Ptr(EVDEV), ret))
    /\ pc' = "demo"
    /\ UNCHANGED <<config, selected_backend, settings, getopt_state, exit_status>>

\* driver_backends_init_backend("EVDEV")
InitEvdev ==
    /\ pc = "init_evdev"
    /\ \E ret \in {0, -1} :
         LET log == Append(calls, Call("driver_backends_init_backend", Ptr(EVDEV), ret))
         IN IF ret = -1
            THEN die(log, <<"e", "v", "d", "e", "v">>)
            ELSE /\ calls' = log
                 /\ pc' = "demo"
                 /\ UNCHANGED exit_status
    /\ UNCHANGED <<config, selected_backend, settings, getopt_state>>

\* lv_demo_widgets and its slideshow, or draw_char_example
StartDemo ==
    /\ pc = "demo"
    /\ calls' = IF USE_STANDARD
                THEN calls \o <<Call("lv_demo_widgets", NULL, 0),
                                Call("lv_demo_widgets_start_slideshow", NULL, 0)>>
                ELSE Append(calls, Call("draw_char_example", NULL, 0))
    /\ pc' = "run_loop"
    /\ UNCHANGED <<config, selected_backend, settings, getopt_state, exit_status>>

\* driver_backends_run_loop is entered; it blocks until the window closes
EnterRunLoop ==
    /\ pc = "run_loop"
    /\ calls' = Append(calls, Call("driver_backends_run_loop", NULL, 0))
    /\ pc' = "in_run_loop"
    /\ UNCHANGED <<config, selected_backend, settings, getopt_state, exit_status>>

\* the run loop returns: main returns 0, or spins in while (1)
RunLoopReturns ==
    /\ pc = "in_run_loop"
    /\ IF USE_STANDARD
       THEN Exit(EXIT_SUCCESS)
       ELSE /\ pc' = "spin"
            /\ UNCHANGED exit_status
    /\ UNCHANGED <<config, selected_backend, settings, getopt_state, calls>>

Next ==
    \/ ConfigureStart
    \/ CaseHelp
    \/ CaseVersion
    \/ CaseListBackends
    \/ CaseBackend
    \/ CaseFullscreen
    \/ CaseMaximize
    \/ CaseWidth
    \/ CaseHeight
    \/ CaseError
    \/ ConfigureReturn
    \/ RegisterAndSelect
    \/ LvInit
    \/ InitDisplayBackend
    \/ InitEvdev
    \/ StartDemo
    \/ EnterRunLoop
    \/ RunLoopReturns

Spec == Init /\ [][Next]_vars

-----------------------------------------------------------------------------
(* The command line read as a whole: the options it holds, in order, by    *)
(* the conventions of the usage text. The claims are stated against it.    *)

OptionLetters == {"b", "f", "m", "W", "H", "B", "V", "h"}
ArgumentLetters == {"b", "W", "H"}

Option(letter, has_arg, arg) == [letter |-> letter, has_arg |-> has_arg, arg |-> arg]

\* the options of the command line from character k of word i on
\* (k = 0: from the start of word i)
RECURSIVE OptionsFrom(_, _)
OptionsFrom(i, k) ==
    IF i > Len(argv) THEN <<>>
    ELSE LET w == argv[i] IN
      IF k = 0
      THEN IF w = <<"-", "-">> THEN <<>>
           ELSE IF Len(w) < 2 \/ Head(w) # "-" THEN OptionsFrom(i + 1, 0)
           ELSE OptionsFrom(i, 2)
      ELSE LET letter == w[k]
               attached == SubSeq(w, k + 1, Len(w))
           IN IF letter \in ArgumentLetters
              THEN IF attached # <<>>
                   THEN <<Option(letter, TRUE, attached)>> \o OptionsFrom(i + 1, 0)
                   ELSE IF i < Len(argv)
                   THEN <<Option(letter, TRUE, argv[i + 1])>> \o OptionsFrom(i + 2, 0)
                   ELSE <<Option(letter, FALSE, <<>>)>>
              ELSE <<Option(letter, FALSE, <<>>)>>
                   \o (IF attached # <<>> THEN OptionsFrom(i, k + 1)
                       ELSE OptionsFrom(i + 1, 0))

AllOptions == OptionsFrom(1, 0)

IsUnknown(o) == o.letter \notin OptionLetters
IsMissingArgument(o) == o.letter \in ArgumentLetters /\ ~o.has_arg
IsUnsupportedBackend(o) ==
    o.letter = "b" /\ o.has_arg /\ o.arg \notin SupportedBackends
IsInformational(o) == o.letter \in {"h", "V", "B"}
IsTerminating(o) ==
    IsInformational(o) \/ IsUnknown(o) \/ IsMissingArgument(o) \/ IsUnsupportedBackend(o)

\* the place of the first terminating option, 0 when there is none
FirstTerminating(os) ==
    IF \E i \in 1..Len(os) : IsTerminating(os[i])
    THEN CHOOSE i \in 1..Len(os) :
           IsTerminating(os[i]) /\ \A j \in 1..(i - 1) : ~IsTerminating(os[j])
    ELSE 0

WithLetter(os, letter) == SelectSeq(os, LAMBDA o : o.letter = letter)

Last(q) == q[Len(q)]

ExpectedWidth(os) ==
    IF WithLetter(os, "W") # <<>> THEN atoi(Last(WithLetter(os, "W")).arg)
    ELSE IF ~env_w.null THEN atoi(env_w.str)
    ELSE 800

ExpectedHeight(os) ==
    IF WithLetter(os, "H") # <<>> THEN atoi(Last(WithLetter(os, "H")).arg)
    ELSE IF ~env_h.null THEN atoi(env_h.str)
    ELSE 480

ExpectedBackend(os) ==
    IF WithLetter(os, "b") # <<>> THEN Ptr(Last(WithLetter(os, "b")).arg) ELSE NULL

Called(fn) == \E i \in 1..Len(calls) : calls[i].fn = fn
CallsOf(fn) == SelectSeq(calls, LAMBDA c : c.fn = fn)

ConfigureReturned == Called("configure_simulator")

Exited == pc = "exited" /\ Len(exit_status) = 1
ExitedNonZero == Exited /\ exit_status[1] # 0

NothingStarted ==
    /\ ~Called("lv_init")
    /\ ~Called("driver_backends_init_backend")
    /\ ~Called("driver_backends_run_loop")

-----------------------------------------------------------------------------
(* Claims *)

\* C1: once option parsing has reached -h, -V or -B the process has ended
\* with status 0, and lv_init, driver_backends_init_backend and the run loop
\* have not been called, in that state and in every later one.
C1_InformationalOptionsExitZero ==
    opt \in {"h", "V", "B"} =>
        /\ Exited
        /\ exit_status = <<0>>
        /\ NothingStarted

C1_Witness ==
    /\ opt = "h"
    /\ Exited
    /\ settings.fullscreen
    /\ Len(AllOptions) > 2

\* C2: the step that processes a -b whose argument is not a supported backend
\* ends the process with a non-zero status and leaves selected_backend as it
\* was; no backend is initialized, no run loop entered, and the process takes
\* no step once it has ended.
C2_UnsupportedBackendIsFatal ==
    [][ /\ pc # "exited"
        /\ (pc = "getopt" /\ opt' = "b"
              /\ driver_backends_is_supported(optarg'.str) = 0)
           => /\ ExitedNonZero'
              /\ selected_backend' = selected_backend
              /\ NothingStarted'
              /\ ~ConfigureReturned' ]_vars

C2_Witness ==
    /\ opt = "b"
    /\ optarg.str = <<"7", "x">>
    /\ selected_backend = Ptr(<<"S", "D", "L">>)
    /\ ExitedNonZero

\* a string that is a decimal number: an optional sign and one or more digits
IsNumeric(str) ==
    LET digits == IF str # <<>> /\ Head(str) \in {"-", "+"} THEN Tail(str) ELSE str
    IN digits # <<>> /\ \A i \in 1..Len(digits) : IsDigit(digits[i])

\* C3 as claimed: an unknown option letter, a missing argument or a
\* non-numeric -W/-H value ends the process with a non-zero status as soon as
\* it is reached.
C3_MalformedValueIsFatal ==
    (\/ opt \in {"?", ":"}
     \/ (opt \in {"W", "H"} /\ ~IsNumeric(optarg.str)))
    => ExitedNonZero

\* C3 as amended: the step that reaches an option letter outside
\* {b,f,m,W,H,B,V,h}, or a -b/-W/-H that no argument follows, ends the process
\* with a non-zero status before configure_simulator returns; a -W/-H value is
\* never refused: the step that reaches it stores atoi of it and the option
\* loop goes on.
C3_UnknownOrMissingIsFatal ==
    [][ (pc = "getopt" /\ OptionsFrom(optind, nextchar) # <<>>) =>
          LET o == Head(OptionsFrom(optind, nextchar)) IN
            /\ (IsUnknown(o) \/ IsMissingArgument(o))
               => /\ ExitedNonZero'
                  /\ opt' = "?"
                  /\ optopt' = o.letter
                  /\ ~ConfigureReturned'
                  /\ NothingStarted'
            /\ (o.letter \in {"W", "H"} /\ o.has_arg)
               => /\ pc' = "getopt"
                  /\ exit_status' = <<>>
                  /\ o.letter = "W" => settings'.window_width = atoi(o.arg)
                  /\ o.letter = "H" => settings'.window_height = atoi(o.arg) ]_vars

C3_Witness ==
    /\ opt = "?"
    /\ optopt = "W"
    /\ ExitedNonZero
    /\ settings.fullscreen

C5_EachFlagItsOwnField ==
    [][ /\ pc = "getopt" =>
            /\ opt' = "f" => /\ settings' = [settings EXCEPT !.fullscreen = TRUE]
                             /\ selected_backend' = selected_backend
            /\ opt' = "m" => /\ settings' = [settings EXCEPT !.maximize = TRUE]
                             /\ selected_backend' = selected_backend
            /\ opt' = "W" => /\ settings' = [settings EXCEPT
                                               !.window_width = atoi(optarg'.str)]
                             /\ selected_backend' = selected_backend
            /\ opt' = "H" => /\ settings' = [settings EXCEPT
                                               !.window_height = atoi(optarg'.str)]
                             /\ selected_backend' = selected_backend
            /\ (opt' = "b" /\ optarg'.str \in SupportedBackends)
                          => /\ selected_backend' = Ptr(optarg'.str)
                             /\ settings' = settings
        /\ settings.fullscreen => settings'.fullscreen
        /\ settings.maximize => settings'.maximize ]_vars

C5_Witness ==
    /\ pc = "getopt"
    /\ opt = "b"
    /\ selected_backend = Ptr(FBDEV)
    /\ settings.fullscreen
    /\ settings.maximize
    /\ settings.window_width = atoi(env_w.str)
    /\ ~env_w.null

\* the startup step a call belongs to, 0 for a call that is no startup step
Step(fn) ==
    CASE fn \in {"driver_backends_register", "configure_simulator"} -> 1
      [] fn = "lv_init" -> 2
      [] fn = "driver_backends_init_backend" -> 3
      [] fn \in {"lv_demo_widgets", "lv_demo_widgets_start_slideshow",
                 "draw_char_example"} -> 4
      [] fn = "driver_backends_run_loop" -> 5
      [] OTHER -> 0

Startup == SelectSeq(calls, LAMBDA c : Step(c.fn) > 0)

\* C6: the startup calls occur in the order configure, lv_init, backend
\* initialization, demo, run loop: no call of a step comes before a call of an
\* earlier step, every step that has run was preceded by each earlier step,
\* completed, no call is made twice, and the run loop is entered only after
\* every backend initialization returned 0.
C6_StartupOrder ==
    /\ \A i, j \in 1..Len(Startup) :
         i < j => Step(Startup[i].fn) <= Step(Startup[j].fn)
    /\ \A j \in 1..Len(Startup) : \A n \in 1..(Step(Startup[j].fn) - 1) :
         \E i \in 1..(j - 1) : Step(Startup[i].fn) = n
    /\ (USE_STANDARD /\ Called("lv_init")) => ConfigureReturned
    /\ \A fn \in {"driver_backends_register", "configure_simulator", "lv_init",
                  "lv_demo_widgets", "lv_demo_widgets_start_slideshow",
                  "draw_char_example", "driver_backends_run_loop"} :
         Len(CallsOf(fn)) <= 1
    /\ Len(CallsOf("driver_backends_init_backend"))
         <= (IF USE_STANDARD /\ LV_USE_EVDEV THEN 2 ELSE 1)
    /\ (\E j \in 1..Len(Startup) : Step(Startup[j].fn) > 3) =>
         /\ Len(CallsOf("driver_backends_init_backend"))
              = (IF USE_STANDARD /\ LV_USE_EVDEV THEN 2 ELSE 1)
         /\ \A i \in 1..Len(calls) :
              calls[i].fn = "driver_backends_init_backend" => calls[i].ret = 0
    /\ pc \in {"in_run_loop", "spin"} => Called("driver_backends_run_loop")

C6_Witness ==
    /\ USE_STANDARD
    /\ LV_USE_EVDEV
    /\ pc = "in_run_loop"
    /\ Len(Startup) = 8
    /\ selected_backend # NULL

\* C7: a backend initialization that returned -1 is the last call but the
\* diagnostic: the process has ended with a non-zero status, no backend was
\* initialized after it, and neither the demo nor the run loop was started.
C7_FailedInitIsFatal ==
    \A i \in 1..Len(calls) :
        (calls[i].fn = "driver_backends_init_backend" /\ calls[i].ret = -1) =>
            /\ ExitedNonZero
            /\ Len(calls) = i + 1
            /\ calls[i + 1].fn = "die"
            /\ \A j \in 1..Len(calls) : Step(calls[j].fn) < 4

C7_Witness ==
    /\ ExitedNonZero
    /\ Len(CallsOf("driver_backends_init_backend")) = 2
    /\ Last(CallsOf("driver_backends_init_backend")).arg = Ptr(EVDEV)
    /\ Last(CallsOf("driver_backends_init_backend")).ret = -1

\* C8: a step that changes a field of the settings is a step of
\* configure_simulator: it starts before configure_simulator has returned, in
\* the build that has it.
C8_SettingsWrittenOnlyInConfigure ==
    [][ settings' # settings =>
          /\ USE_STANDARD
          /\ pc \in {"main", "getopt"}
          /\ ~ConfigureReturned ]_vars

C8_Witness ==
    /\ ConfigureReturned
    /\ Exited
    /\ Called("driver_backends_run_loop")
    /\ settings = [window_width |-> 640, window_height |-> 5,
                   fullscreen |-> TRUE, maximize |-> TRUE]

\* the first backend initialization is that of the display backend
DisplayInit == Head(CallsOf("driver_backends_init_backend"))

\* C9: in the build that parses the command line, the name handed to the
\* display backend's initialization is NULL when the command line has no -b,
\* else the argument of its last -b, and then every -b of the command line has
\* a supported argument.
C9_BackendNameHandedOver ==
    (USE_STANDARD /\ Called("driver_backends_init_backend")) =>
        /\ DisplayInit.arg = ExpectedBackend(AllOptions)
        /\ \A i \in 1..Len(AllOptions) :
             AllOptions[i].letter = "b" =>
                /\ AllOptions[i].has_arg
                /\ driver_backends_is_supported(AllOptions[i].arg) = 1

C9_Witness ==
    /\ USE_STANDARD
    /\ Called("driver_backends_init_backend")
    /\ Len(WithLetter(AllOptions, "b")) = 2
    /\ Head(WithLetter(AllOptions, "b")).arg # Last(WithLetter(AllOptions, "b")).arg
    /\ DisplayInit.arg = Ptr(FBDEV)

\* the options before the first terminating one
BeforeFirstTerminating ==
    SubSeq(AllOptions, 1, FirstTerminating(AllOptions) - 1)

\* C10: configure_simulator returns exactly when the command line has no
\* terminating option; else the process ends in it, with status 0 when the
\* first terminating option is -h, -V or -B and with a non-zero status when it
\* is an unsupported -b, an unknown option or a missing argument, and the
\* settings and the selected backend are those the options before it give:
\* what follows it has no effect.
C10_FirstTerminatingOptionDecides ==
    (USE_STANDARD /\ pc \notin {"main", "getopt"}) =>
        IF FirstTerminating(AllOptions) = 0
        THEN ConfigureReturned
        ELSE /\ ~ConfigureReturned
             /\ Exited
             /\ NothingStarted
             /\ IF IsInformational(AllOptions[FirstTerminating(AllOptions)])
                THEN exit_status = <<0>>
                ELSE exit_status[1] # 0
             /\ settings = [window_width |-> ExpectedWidth(BeforeFirstTerminating),
                            window_height |-> ExpectedHeight(BeforeFirstTerminating),
                            fullscreen |-> WithLetter(BeforeFirstTerminating, "f") # <<>>,
                            maximize |-> WithLetter(BeforeFirstTerminating, "m") # <<>>]
             /\ selected_backend = ExpectedBackend(BeforeFirstTerminating)

C10_Witness ==
    /\ USE_STANDARD
    /\ ExitedNonZero
    /\ Len(AllOptions) = 2
    /\ IsUnsupportedBackend(AllOptions[1])
    /\ AllOptions[2].letter = "h"

====
